---- MODULE Spec2Model ----
(***************************************************************************)
(* SimplexViewer: the compositional-data plot builder of the two pages of  *)
(* the repository.                                                         *)
(*   src/app/page.tsx      "snapshot" page: N components, the plot is      *)
(*                         built from a snapshot taken by "Create plot".   *)
(*   src/unnamed/part_000  "pool" page: 4 components normalised against a  *)
(*                         component pool, slider constraints, draw order, *)
(*                         reactive clean-up effects.                      *)
(* Numbers are exact rationals; a JavaScript value is a record that keeps  *)
(* its typeof tag, so that typeof tests, parseFloat and the coercing       *)
(* global isFinite are computed as the code computes them.                 *)
(***************************************************************************)
EXTENDS Integers, Sequences, FiniteSets, TLC

(***************************************************************************)
(* Bounds of the model.                                                    *)
(***************************************************************************)
\* rows fed to one build in the build specification
MaxRows == 2
\* snapshot page: edits made to the selections while a taken snapshot is held
MaxStale == 1
\* colour and draw-order controls that differ from their initial value at once
MaxRestyled == 1
\* file parses that may be in flight at once
MaxParsing == 1

(***************************************************************************)
(* Exact arithmetic: a rational is <<numerator, denominator>>, reduced,    *)
(* denominator > 0.                                                        *)
(***************************************************************************)
Abs(i) == IF i < 0 THEN -i ELSE i

RECURSIVE Gcd(_, _)
Gcd(a, b) == IF b = 0 THEN a ELSE Gcd(b, a % b)

Rat(n, d) ==
  LET g == Gcd(Abs(n), Abs(d))
      s == IF d < 0 THEN -1 ELSE 1
  IN  <<(s * n) \div g, (s * d) \div g>>

RAdd(p, q) == Rat(p[1] * q[2] + q[1] * p[2], p[2] * q[2])
RSub(p, q) == Rat(p[1] * q[2] - q[1] * p[2], p[2] * q[2])
RMul(p, q) == Rat(p[1] * q[1], p[2] * q[2])
RDiv(p, q) == Rat(p[1] * q[2], p[2] * q[1])
RLe(p, q) == p[1] * q[2] <= q[1] * p[2]
RLt(p, q) == p[1] * q[2] < q[1] * p[2]
RAbs(p) == <<Abs(p[1]), p[2]>>
RZero == <<0, 1>>
ROne == <<1, 1>>

RECURSIVE RSum(_)
RSum(s) == IF s = <<>> THEN RZero ELSE RAdd(Head(s), RSum(Tail(s)))

(***************************************************************************)
(* JavaScript values.  t is the typeof tag ("null" stands for the value    *)
(* null, "undefined" for an absent field), f tells a finite number from    *)
(* NaN and the infinities, q is the rational value of a finite number or   *)
(* 1/0 for true/false, s the characters of a string.                       *)
(***************************************************************************)
Num(q) == [t |-> "number", f |-> "fin", q |-> q, s |-> <<>>]
Int2(i) == Num(<<i, 1>>)
NaN == [t |-> "number", f |-> "nan", q |-> RZero, s |-> <<>>]
Infinity == [t |-> "number", f |-> "inf", q |-> ROne, s |-> <<>>]
Str(chars) == [t |-> "string", f |-> "fin", q |-> RZero, s |-> chars]
Null == [t |-> "null", f |-> "fin", q |-> RZero, s |-> <<>>]
Undefined == [t |-> "undefined", f |-> "fin", q |-> RZero, s |-> <<>>]
Bool(b) == [t |-> "boolean", f |-> "fin", q |-> IF b THEN ROne ELSE RZero, s |-> <<>>]

IsNumber(v) == v.t = "number"
IsFiniteNumber(v) == v.t = "number" /\ v.f = "fin"

(***************************************************************************)
(* parseFloat: leading blanks, an optional sign, digits, an optional       *)
(* fraction; the longest such prefix is the value and trailing characters  *)
(* are ignored; no digit at all gives NaN.                                 *)
(***************************************************************************)
Digits == <<"0", "1", "2", "3", "4", "5", "6", "7", "8", "9">>
IsDigit(c) == \E i \in 1..10 : Digits[i] = c
DigitVal(c) == (CHOOSE i \in 1..10 : Digits[i] = c) - 1

RECURSIVE SkipBlanks(_)
SkipBlanks(s) ==
  IF s # <<>> /\ Head(s) = " " THEN SkipBlanks(Tail(s)) ELSE s

RECURSIVE TakeDigits(_)
TakeDigits(s) ==
  IF s # <<>> /\ IsDigit(Head(s)) THEN <<Head(s)>> \o TakeDigits(Tail(s)) ELSE <<>>

RECURSIVE DigitsValue(_, _)
DigitsValue(ds, acc) ==
  IF ds = <<>> THEN acc ELSE DigitsValue(Tail(ds), acc * 10 + DigitVal(Head(ds)))

RECURSIVE Pow10(_)
Pow10(k) == IF k = 0 THEN 1 ELSE 10 * Pow10(k - 1)

Signed(mag, neg) == IF neg THEN <<-mag[1], mag[2]>> ELSE mag

ParseValue(ip, fp, neg) ==
  IF ip = <<>> /\ fp = <<>> THEN NaN
  ELSE Num(Signed(RAdd(<<DigitsValue(ip, 0), 1>>,
                       Rat(DigitsValue(fp, 0), Pow10(Len(fp)))), neg))

FractionDigits(rest) ==
  IF rest # <<>> /\ Head(rest) = "." THEN TakeDigits(Tail(rest)) ELSE <<>>

ParseFraction(ip, u, neg) ==
  ParseValue(ip, FractionDigits(SubSeq(u, Len(ip) + 1, Len(u))), neg)

ParseUnsigned(u, neg) == ParseFraction(TakeDigits(u), u, neg)

ParseSigned(t) ==
  ParseUnsigned(IF t # <<>> /\ Head(t) \in {"-", "+"} THEN Tail(t) ELSE t,
                t # <<>> /\ Head(t) = "-")

ParseFloatChars(s) == ParseSigned(SkipBlanks(s))

\* ToString of a value that is not a string, as parseFloat sees it
ToStringChars(v) ==
  CASE v.t = "string" -> v.s
    [] v.t = "null" -> <<"n", "u", "l", "l">>
    [] v.t = "undefined" -> <<"u", "n", "d", "e", "f", "i", "n", "e", "d">>
    [] v.t = "boolean" -> IF v.q = ROne THEN <<"t", "r", "u", "e">>
                                        ELSE <<"f", "a", "l", "s", "e">>
    [] OTHER -> <<"N", "a", "N">>

\* parseFloat(value) for any value (a number goes through unchanged in value)
ParseFloat(v) == IF v.t = "number" THEN v ELSE ParseFloatChars(ToStringChars(v))

\* Number(string): the whole trimmed text must be a number; "" is 0
WholeNumber(t, parsed) ==
  IF t = <<>> THEN Num(RZero)
  ELSE IF \A i \in 1..Len(t) : IsDigit(t[i]) \/ t[i] \in {".", "-", "+"} THEN parsed
  ELSE NaN

\* ToNumber, the coercion inside the global isFinite
ToNumber(v) ==
  CASE v.t = "number" -> v
    [] v.t = "null" -> Num(RZero)
    [] v.t = "boolean" -> Num(v.q)
    [] v.t = "undefined" -> NaN
    [] OTHER -> WholeNumber(SkipBlanks(v.s), ParseFloatChars(v.s))

\* the global isFinite(x): coerces, so null, true and false are "finite"
isFinite(v) == ToNumber(v).f = "fin"

(***************************************************************************)
(* Number.prototype.toFixed(digits) of a finite number: the value times    *)
(* 10^digits rounded to the nearest integer, halves away from zero.        *)
(***************************************************************************)
RoundHalfUp(m, d) == (2 * m + d) \div (2 * d)

ToFixed(q, digits) ==
  [scaled |-> (IF q[1] < 0 THEN -1 ELSE 1) * RoundHalfUp(Abs(q[1]) * Pow10(digits), q[2]),
   digits |-> digits]

(***************************************************************************)
(* Rows and field access.  A row is a function from the field names it     *)
(* holds to values; reading a field it does not hold gives undefined.      *)
(***************************************************************************)
Field(row, col) == IF col \in DOMAIN row THEN row[col] ELSE Undefined

Includes(s, x) == \E i \in 1..Len(s) : s[i] = x
Truthy(c) == c # ""
\* slice(0, n)
Slice(s, n) == SubSeq(s, 1, IF n < Len(s) THEN n ELSE Len(s))

(***************************************************************************)
(* The value of one component field of a row: a string is parsed, and      *)
(* whatever is then not a finite number becomes NaN.                       *)
(***************************************************************************)
FiniteOrNaN(num) == IF isFinite(num) THEN num ELSE NaN

\* if (typeof val === 'string') val = isFinite(parseFloat(val)) ? ... : NaN
ParseIfString(val) == IF val.t = "string" THEN FiniteOrNaN(ParseFloat(val)) ELSE val

\* typeof val === 'number' && isFinite(val) ? val : NaN
NumberOrNaN(val) == IF val.t = "number" /\ isFinite(val) THEN val ELSE NaN

CompValue(row, col) == NumberOrNaN(ParseIfString(Field(row, col)))

(***************************************************************************)
(* The performance value of a row: a string is parsed; any other value is  *)
(* kept as it is (no typeof test here).                                    *)
(***************************************************************************)
PerfValue(row, col) == ParseIfString(Field(row, col))

\* typeof value === 'number' ? value : parseFloat(value)
NumberOrParse(value) == IF value.t = "number" THEN value ELSE ParseFloat(value)

PoolNum(row, col) == NumberOrParse(Field(row, col))

(***************************************************************************)
(* The pool total of a row: the sum of the pool fields that are finite     *)
(* numbers; the others are left out of the sum.                            *)
(***************************************************************************)
\* isFinite(num) ? sum + num : sum
AddIfFinite(sum, num) == IF isFinite(num) THEN RAdd(sum, num.q) ELSE sum

RECURSIVE PoolTotal(_, _)
PoolTotal(row, pool) ==
  IF pool = <<>> THEN RZero
  ELSE AddIfFinite(PoolTotal(row, SubSeq(pool, 1, Len(pool) - 1)),
                   PoolNum(row, pool[Len(pool)]))

(***************************************************************************)
(* Tetrahedron vertices v0..v3.  x is rational, y is a rational multiple   *)
(* of sqrt(3) and z a rational multiple of sqrt(6): a vertex is            *)
(* <<x, y / sqrt 3, z / sqrt 6>>, so v2 = (1/2, sqrt3/2, 0) is             *)
(* <<1/2, 1/2, 0>> and v3 = (1/2, sqrt3/6, sqrt6/3) is <<1/2, 1/6, 1/3>>.  *)
(***************************************************************************)
\* a variant with v2 and v3 exchanged
Vertices_Exchanged ==
  << <<RZero, RZero, RZero>>,
     <<ROne, RZero, RZero>>,
     <<Rat(1, 2), Rat(1, 6), Rat(1, 3)>>,
     <<Rat(1, 2), Rat(1, 2), RZero>> >>

Vertices ==
  << <<RZero, RZero, RZero>>,
     <<ROne, RZero, RZero>>,
     <<Rat(1, 2), Rat(1, 2), RZero>>,
     <<Rat(1, 2), Rat(1, 6), Rat(1, 3)>> >>

\* weighted sum of the vertices, one axis k of x, y, z
Project(normalized, k) ==
  RSum([i \in 1..4 |-> RMul(Vertices[i][k], normalized[i])])

Tetra(normalized) == [k \in 1..3 |-> Project(normalized, k)]

(***************************************************************************)
(* Hover text: each component as a percentage with two decimals, then the  *)
(* performance with three.  Calling toFixed on a performance value that is *)
(* not a number (null, true, false) raises a TypeError.                    *)
(***************************************************************************)
HoverText(cols, normalized, perfCol, perf) ==
  [parts |-> [i \in 1..Len(normalized) |->
                <<cols[i], ToFixed(RMul(normalized[i], <<100, 1>>), 2)>>],
   perfName |-> perfCol,
   perf |-> ToFixed(perf.q, 3)]

NoHover == [parts |-> <<>>, perfName |-> "", perf |-> ToFixed(RZero, 3)]

ToFixedThrows(perf) == perf.t # "number"

(***************************************************************************)
(* One iteration of the row loop.  The outcome is "skip" (the row is       *)
(* rejected by a return), "point" (the row is accepted) or "throw" (the    *)
(* iteration raised).                                                      *)
(***************************************************************************)
Outcome(st, normalized, perf, hover) ==
  [st |-> st, normalized |-> normalized, perf |-> perf, hover |-> hover]

Skip == Outcome("skip", <<>>, NaN, NoHover)
Throw == Outcome("throw", <<>>, NaN, NoHover)

SumRejects(sum) == RLe(sum, RZero)

\* the tail of an iteration: the hover text (which may raise) and the push
Accept(normalized, perf, cols, perfCol) ==
  IF ToFixedThrows(perf) THEN Throw
  ELSE Outcome("point", normalized, perf, HoverText(cols, normalized, perfCol, perf))

Qs(comps) == [i \in 1..Len(comps) |-> comps[i].q]
Normalise(comps, denominator) == [i \in 1..Len(comps) |-> RDiv(comps[i].q, denominator)]
\* mutant: the performance value is not tested
AnyNaN_CompsOnly(comps, perf) == \E i \in 1..Len(comps) : ~isFinite(comps[i])

\* comps.some((v) => !isFinite(v)) || !isFinite(perf)
AnyNaN(comps, perf) == (\E i \in 1..Len(comps) : ~isFinite(comps[i])) \/ ~isFinite(perf)

\* src/app/page.tsx: the row loop of the snapshot page
SnapshotNormalise(comps, perf, sum, cols, perfCol) ==
  IF SumRejects(sum) THEN Skip
  ELSE Accept(Normalise(comps, sum), perf, cols, perfCol)

SnapshotAccept(comps, perf, cols, perfCol) ==
  IF AnyNaN(comps, perf) THEN Skip
  ELSE SnapshotNormalise(comps, perf, RSum(Qs(comps)), cols, perfCol)

SnapshotRow(row, selectedCompCols, plotDimension, plotPerformanceCol) ==
  SnapshotAccept([i \in 1..plotDimension |-> CompValue(row, selectedCompCols[i])],
                 PerfValue(row, plotPerformanceCol),
                 selectedCompCols, plotPerformanceCol)

\* a variant with twice the tolerance
tolerance_Wide == Rat(1, 100)
tolerance == Rat(5, 1000)

\* a JavaScript object: its keys in insertion order, <<key, value>> pairs
HasKey(obj, key) == \E i \in 1..Len(obj) : obj[i][1] = key
Get(obj, key) == obj[CHOOSE i \in 1..Len(obj) : obj[i][1] = key][2]
\* {...obj, [key]: value}
Put(obj, key, value) ==
  IF HasKey(obj, key)
    THEN [i \in 1..Len(obj) |-> IF obj[i][1] = key THEN <<key, value>> ELSE obj[i]]
    ELSE Append(obj, <<key, value>>)

\* one slider column of a row: TRUE when the constraint rejects the row
SliderRejectsOne(num, total, sliderCol, sliderVals) ==
  \/ ~isFinite(num)
  \/ ~HasKey(sliderVals, sliderCol)
  \/ RLt(tolerance, RAbs(RSub(RDiv(num.q, total), Get(sliderVals, sliderCol))))

\* the slider loop of a row: TRUE when some slider constraint rejects the row
SliderRejects(row, total, sliderCols, sliderVals) ==
  \E i \in 1..Len(sliderCols) :
    SliderRejectsOne(PoolNum(row, sliderCols[i]), total, sliderCols[i], sliderVals)

\* src/unnamed/part_000: the row loop of the pool page
PoolAccept(comps, perf, total, cols, perfCol) ==
  IF AnyNaN(comps, perf) THEN Skip
  ELSE Accept(Normalise(comps, total), perf, cols, perfCol)

PoolFilter(row, total, cols, perfCol, sliderCols, sliderVals) ==
  IF SumRejects(total) THEN Skip
  ELSE IF SliderRejects(row, total, sliderCols, sliderVals) THEN Skip
  ELSE PoolAccept([i \in 1..4 |-> CompValue(row, cols[i])], PerfValue(row, perfCol),
                  total, cols, perfCol)

PoolRow(row, selectedCompCols, perfCol, componentColumns, sliderCols, sliderVals) ==
  PoolFilter(row, PoolTotal(row, componentColumns), selectedCompCols, perfCol,
             sliderCols, sliderVals)

(***************************************************************************)
(* The result of a build: what the page hands to the plot component.       *)
(* kind is "none" (plotData null: no plot), "threw" (the computation       *)
(* raised, so the render failed), or the trace type.  cols are the         *)
(* coordinate arrays of the trace (a, b, c / x, y, z / one per axis),      *)
(* text the hover texts and color the marker colours, index by index.      *)
(***************************************************************************)
PlotRec(kind, cols, text, color, lo, hi, scale, axes, bar, names) ==
  [kind |-> kind, cols |-> cols, text |-> text, color |-> color,
   cmin |-> lo, cmax |-> hi, colorscale |-> scale, axes |-> axes,
   colorbar |-> bar, title |-> names]

NoPlot == PlotRec("none", <<>>, <<>>, <<>>, NaN, NaN, "", <<>>, "", <<>>)
Threw == PlotRec("threw", <<>>, <<>>, <<>>, NaN, NaN, "", <<>>, "", <<>>)

\* Math.min(...values) and Math.max(...values) of finite numbers
RECURSIVE MathMin(_)
MathMin(vs) ==
  IF Len(vs) = 1 THEN vs[1]
  ELSE LET m == MathMin(Tail(vs)) IN IF RLe(vs[1].q, m.q) THEN vs[1] ELSE m

RECURSIVE MathMax(_)
MathMax(vs) ==
  IF Len(vs) = 1 THEN vs[1]
  ELSE LET m == MathMax(Tail(vs)) IN IF RLe(m.q, vs[1].q) THEN vs[1] ELSE m

\* a variant of perfMin that takes the first value for the least one
perfMin_First(perfValues) == IF Len(perfValues) > 0 THEN perfValues[1] ELSE Int2(0)
perfMin(perfValues) == IF Len(perfValues) > 0 THEN MathMin(perfValues) ELSE Int2(0)
perfMax(perfValues) == IF Len(perfValues) > 0 THEN MathMax(perfValues) ELSE Int2(1)

\* the colour bound: the override text when it is not empty, else the data bound
ColourBound(text, fromData) == IF text # <<>> THEN ParseFloatChars(text) ELSE fromData

IsPoint(o) == o.st = "point"
IsThrow(o) == o.st = "throw"

(***************************************************************************)
(* src/app/page.tsx, the useMemo body: the build of the snapshot page.     *)
(* pp is plotParams; pp.set = FALSE stands for null.                       *)
(***************************************************************************)
NoParams ==
  [set |-> FALSE, dimension |-> 3, componentCols |-> <<>>, performanceCol |-> "",
   colorScale |-> "", cmin |-> <<>>, cmax |-> <<>>]

SnapshotSelected(pp) == SelectSeq(Slice(pp.componentCols, pp.dimension), Truthy)

SnapshotReady(n, pp) ==
  /\ pp.set
  /\ ~(\/ n = 0
       \/ Len(SnapshotSelected(pp)) # pp.dimension
       \/ pp.performanceCol = "")

SnapshotOutcomes(rows, pp) ==
  [i \in 1..Len(rows) |->
     SnapshotRow(rows[i], SnapshotSelected(pp), pp.dimension, pp.performanceCol)]

\* the second row loop (N >= 5): the normalised coordinates of the kept rows
SnapshotAxisNormalise(comps, perf, sum) ==
  IF SumRejects(sum) THEN Skip
  ELSE Outcome("point", Normalise(comps, sum), perf, NoHover)

\* a variant of the second loop that does not test the performance value
SnapshotAxisAccept_CompsOnly(comps, perf) ==
  IF AnyNaN_CompsOnly(comps, perf) THEN Skip
  ELSE SnapshotAxisNormalise(comps, perf, RSum(Qs(comps)))

SnapshotAxisAccept(comps, perf) ==
  IF AnyNaN(comps, perf) THEN Skip
  ELSE SnapshotAxisNormalise(comps, perf, RSum(Qs(comps)))

SnapshotAxisRow(row, selectedCompCols, plotDimension, plotPerformanceCol) ==
  SnapshotAxisAccept([i \in 1..plotDimension |-> CompValue(row, selectedCompCols[i])],
                     PerfValue(row, plotPerformanceCol))

Perfs(pts) == [i \in 1..Len(pts) |-> pts[i].perf]
Hovers(pts) == [i \in 1..Len(pts) |-> pts[i].hover]

SnapshotTrace(pts, perfValues, pp, kind, cols, axes, suffix) ==
  PlotRec(kind, cols, Hovers(pts), perfValues,
          ColourBound(pp.cmin, perfMin(perfValues)),
          ColourBound(pp.cmax, perfMax(perfValues)),
          pp.colorScale, axes, pp.performanceCol,
          <<SnapshotSelected(pp), suffix>>)

\* the dimensions of the parcoords trace: a label and the range [0, 1] each
\* (the values are the cols of the trace)
Dimensions(labels) ==
  [i \in 1..Len(labels) |-> [label |-> labels[i], range |-> <<0, 1>>]]

\* what follows the row loop: the colour domain, the trace and the layout
SnapshotFinish(pts, axisPts, threw, pp) ==
  IF threw THEN Threw
  ELSE IF pp.dimension = 3 THEN
    SnapshotTrace(pts, Perfs(pts), pp, "scatterternary",
      [k \in 1..3 |-> [i \in 1..Len(pts) |-> pts[i].normalized[k]]],
      SnapshotSelected(pp), "Simplex")
  ELSE IF pp.dimension = 4 THEN
    SnapshotTrace(pts, Perfs(pts), pp, "scatter3d",
      [k \in 1..3 |-> [i \in 1..Len(pts) |-> Tetra(pts[i].normalized)[k]]],
      <<"X", "Y", "Z">>, "Tetrahedron")
  ELSE
    SnapshotTrace(pts, Perfs(pts), pp, "parcoords",
      [k \in 1..(pp.dimension - 1) |->
         [i \in 1..Len(axisPts) |-> axisPts[i].normalized[k]]],
      Dimensions(Slice(SnapshotSelected(pp), pp.dimension - 1)), "Simplex (N-1 D)")

SnapshotAxis(rows, pp) ==
  [i \in 1..Len(rows) |->
     SnapshotAxisRow(rows[i], SnapshotSelected(pp), pp.dimension, pp.performanceCol)]

AnyThrow(outs) == \E i \in 1..Len(outs) : IsThrow(outs[i])

SnapshotLoops(outs, axis, pp) ==
  SnapshotFinish(SelectSeq(outs, IsPoint), SelectSeq(axis, IsPoint), AnyThrow(outs), pp)

BuildSnapshot(rows, pp) ==
  IF ~SnapshotReady(Len(rows), pp) THEN NoPlot
  ELSE SnapshotLoops(SnapshotOutcomes(rows, pp), SnapshotAxis(rows, pp), pp)

(***************************************************************************)
(* src/unnamed/part_000, the useMemo body: the build of the pool page.     *)
(* cfg holds the state the memo reads.                                     *)
(***************************************************************************)
PoolSelected(cfg) == SelectSeq(cfg.componentCols, Truthy)

PoolReady(n, cfg) ==
  ~(\/ n = 0
    \/ Len(PoolSelected(cfg)) # 4
    \/ cfg.performanceCol = ""
    \/ Len(cfg.componentPool) = 0)

PoolOutcomes(rows, cfg) ==
  [i \in 1..Len(rows) |->
     PoolRow(rows[i], PoolSelected(cfg), cfg.performanceCol, cfg.componentPool,
             cfg.sliderColumns, cfg.sliderValues)]

\* a variant of the comparator that sorts upwards whatever the draw order
Compare_Upwards(sortOrder, left, right) == RSub(left.perf.q, right.perf.q)

\* the comparator of points.sort: negative, zero or positive
Compare(sortOrder, left, right) ==
  IF sortOrder = "high" THEN RSub(left.perf.q, right.perf.q)
                        ELSE RSub(right.perf.q, left.perf.q)

\* Array.prototype.sort is stable: an element goes in front of the first
\* element of the sorted prefix that compares greater than it
RECURSIVE InsertPoint(_, _, _)
InsertPoint(sorted, p, sortOrder) ==
  IF sorted = <<>> THEN <<p>>
  ELSE LET last == sorted[Len(sorted)]
       IN  IF RLt(RZero, Compare(sortOrder, last, p))
             THEN InsertPoint(SubSeq(sorted, 1, Len(sorted) - 1), p, sortOrder)
                    \o <<last>>
             ELSE sorted \o <<p>>

RECURSIVE SortPoints(_, _)
SortPoints(pts, sortOrder) ==
  IF pts = <<>> THEN <<>>
  ELSE InsertPoint(SortPoints(SubSeq(pts, 1, Len(pts) - 1), sortOrder),
                   pts[Len(pts)], sortOrder)

\* what follows the sort: the arrays of the trace and the colour domain
PoolTrace(pts, perfValues, cfg) ==
  PlotRec("scatter3d",
          [k \in 1..3 |-> [i \in 1..Len(pts) |-> Tetra(pts[i].normalized)[k]]],
          Hovers(pts), perfValues,
          ColourBound(cfg.cmin, perfMin(perfValues)),
          ColourBound(cfg.cmax, perfMax(perfValues)),
          cfg.colorScale, <<"X", "Y", "Z">>, cfg.performanceCol,
          <<PoolSelected(cfg), "Tetrahedron">>)

PoolSorted(pts, cfg) == PoolTrace(pts, Perfs(pts), cfg)

\* what follows the row loop: the sort, the colour domain, the trace
PoolFinish(points, threw, cfg) ==
  IF threw THEN Threw ELSE PoolSorted(SortPoints(points, cfg.sortOrder), cfg)

PoolLoop(outs, cfg) == PoolFinish(SelectSeq(outs, IsPoint), AnyThrow(outs), cfg)

BuildPool(rows, cfg) ==
  IF ~PoolReady(Len(rows), cfg) THEN NoPlot
  ELSE PoolLoop(PoolOutcomes(rows, cfg), cfg)

(***************************************************************************)
(* State.  The React state of the mounted page, the memoised plot, the     *)
(* effects waiting to run, the file parses in flight; and, for the build   *)
(* specification, the locals of one run of the row loop.                   *)
(***************************************************************************)
VARIABLES
  page,            \* "snapshot" (src/app/page.tsx) or "pool" (src/unnamed/part_000)
  data,            \* the parsed rows
  columns,         \* the field names of the file
  dimension,       \* snapshot page: the number of components
  componentCols,   \* the field selected in each component slot, "" when none
  performanceCol,  \* the performance field, "" when none
  colorScale, cmin, cmax,
  plotParams,      \* snapshot page: the parameters taken by "Create plot"
  componentPool,   \* pool page: the fields of the normalisation total
  sortOrder,       \* pool page: "high" or "low"
  sliderColumns,   \* pool page: the constraint fields
  sliderValues,    \* pool page: the target of each constraint field
  plotData,        \* the value of the plot memo at the last render
  effects,         \* pool page: the effects whose dependencies changed at the last render
  parsing,         \* the files whose parse has not completed
  stale,           \* snapshot page: edits made since the snapshot was taken
  last,            \* what the last step was: a build step, "load" or "reload"
                   \* for a completed parse, "step" for any other page step
  bPhase,          \* build specification: "off", "start", "loop", "done"
  bLen,            \* data.length of the dataset being built
  bCount,          \* rows the loop has processed
  bRow,            \* the row of the last iteration
  bOut,            \* the outcome of the last iteration
  bPts,            \* the points pushed so far
  bAxis,           \* the axis points pushed so far (second loop)
  bThrew           \* an iteration raised

uiVars == <<data, columns, dimension, componentCols, performanceCol, colorScale,
            cmin, cmax, plotParams, componentPool, sortOrder, sliderColumns,
            sliderValues, effects, parsing, stale>>
cfgVars == <<page, data, columns, dimension, componentCols, performanceCol,
             colorScale, cmin, cmax, plotParams, componentPool, sortOrder,
             sliderColumns, sliderValues, effects, parsing, stale>>
bVars == <<bPhase, bLen, bCount, bRow, bOut, bPts, bAxis, bThrew>>
vars == <<page, uiVars, plotData, last, bVars>>

\* what the plot memo of the pool page reads
LiveCfg ==
  [componentCols |-> componentCols, performanceCol |-> performanceCol,
   componentPool |-> componentPool, sliderColumns |-> sliderColumns,
   sliderValues |-> sliderValues, sortOrder |-> sortOrder,
   cmin |-> cmin, cmax |-> cmax, colorScale |-> colorScale]

\* what "Create plot" stores
LiveParams ==
  [set |-> TRUE, dimension |-> dimension, componentCols |-> componentCols,
   performanceCol |-> performanceCol, colorScale |-> colorScale,
   cmin |-> cmin, cmax |-> cmax]

(***************************************************************************)
(* The build specification: one run of the useMemo body, row by row, for   *)
(* a configuration and rows drawn from bounded sets.                       *)
(***************************************************************************)
BuildCols == <<"A", "B", "C", "D", "E", "P">>

BaseRow ==
  [A |-> Int2(1), B |-> Int2(1), C |-> Int2(1), D |-> Int2(1), E |-> Int2(1),
   P |-> Int2(10)]

\* the cell kinds a parsed file can hold: numbers (zero, negative), text that
\* starts with a number, other text, null (an empty cell), undefined (a short
\* line), a boolean
CellValues ==
  { Int2(0), Int2(-1), Int2(-9), Str(<<"2", "k", "g">>), Str(<<"x">>),
    Null, Undefined, Bool(TRUE) }

\* the cells tried in each field: every kind in a plotted component (A) and in
\* the performance field (P), some in a pool field that is not plotted (E)
CellsOf(col) ==
  CASE col \in {"A", "P"} -> CellValues
    [] col = "E" -> { Int2(0), Int2(-9), Str(<<"x">>), Undefined }
    [] OTHER -> {}

\* the base row with one cell replaced, three rows of the test scenarios, and
\* two rows whose E is 0.503 and 0.51 of the total of A to E, and four
\* rows that hold one of A, B, C, D only
BuildRows ==
  { BaseRow }
  \cup UNION { { [BaseRow EXCEPT ![BuildCols[i]] = v] : v \in CellsOf(BuildCols[i]) } :
               i \in 1..Len(BuildCols) }
  \cup { [A |-> Int2(2), B |-> Int2(0), C |-> Int2(2), D |-> Int2(0), E |-> Int2(0),
          P |-> Int2(20)],
         [A |-> Int2(0), B |-> Int2(0), C |-> Int2(0), D |-> Int2(0), E |-> Int2(0),
          P |-> Int2(5)],
         [A |-> Int2(-1), B |-> Int2(2), C |-> Int2(1), D |-> Int2(1),
          E |-> Int2(1), P |-> Str(<<"7">>)],
         [A |-> Int2(125), B |-> Int2(124), C |-> Int2(124), D |-> Int2(124),
          E |-> Int2(503), P |-> Int2(30)],
         [A |-> Int2(124), B |-> Int2(122), C |-> Int2(122), D |-> Int2(122),
          E |-> Int2(510), P |-> Int2(40)] }
  \cup { [A |-> Int2(IF k = 1 THEN 3 ELSE 0), B |-> Int2(IF k = 2 THEN 3 ELSE 0),
          C |-> Int2(IF k = 3 THEN 3 ELSE 0), D |-> Int2(IF k = 4 THEN 3 ELSE 0),
          E |-> Int2(0), P |-> Int2(50 + k)] : k \in 1..4 }

\* snapshots "Create plot" can take: it is enabled only with every slot of the
\* dimension and the performance field selected, over a non-empty dataset
SnapshotConfigs ==
  { pp \in
      { [set |-> TRUE, dimension |-> d, componentCols |-> cc, performanceCol |-> "P",
         colorScale |-> "Viridis", cmin |-> <<>>, cmax |-> <<>>] :
          d \in 3..5,
          cc \in { <<"A", "B", "C", "D", "E">>, <<"A", "A", "B", "C", "D">>,
                   <<"P", "A", "B", "C", "D">>, <<"A", "B", "C", "D", "">> } } :
      Len(SnapshotSelected(pp)) = pp.dimension }

\* configurations a render of the pool page can hold, those between an event
\* and the effects that follow it included

PoolConfigs ==
  { [componentCols |-> cc, performanceCol |-> pc, componentPool |-> pool,
     sliderColumns |-> <<>>, sliderValues |-> <<>>, sortOrder |-> "high",
     cmin |-> <<>>, cmax |-> <<>>, colorScale |-> "Viridis"] :
      cc \in { <<"A", "B", "C", "D">>, <<"A", "A", "B", "C">>, <<"A", "B", "", "C">> },
      pool \in { <<"A", "B", "C", "D">>, <<"A", "B", "C", "D", "E">>,
                 <<"B", "C", "D", "E">>, <<>> },
      pc \in {"P", ""} }
  \cup
  { [componentCols |-> <<"A", "B", "C", "D">>, performanceCol |-> "P",
     componentPool |-> v.pool,
     sliderColumns |-> v.sc, sliderValues |-> v.sv, sortOrder |-> so,
     cmin |-> <<>>, cmax |-> <<>>, colorScale |-> "Viridis"] :
      v \in { [pool |-> <<"A", "B", "C", "D">>, sc |-> <<>>, sv |-> <<>>],
              [pool |-> <<"A", "B", "C", "D", "E">>, sc |-> <<"E">>, sv |-> <<>>],
              [pool |-> <<"A", "B", "C", "D", "E">>, sc |-> <<"E">>,
               sv |-> << <<"E", Rat(1, 5)>> >>],
              [pool |-> <<"A", "B", "C", "D", "E">>, sc |-> <<"E">>,
               sv |-> << <<"E", Rat(1, 2)>> >>] },
      so \in {"high", "low"} }

\* the colour override texts a build can read: none, a number, text that is
\* no number (the memo takes the text as the state holds it); the minimum 15
\* with the maximum 5 is an override whose minimum exceeds its maximum
BuildCminPicks == { <<>>, <<"1", "5">>, <<"x">> }
BuildCmaxPicks == { <<>>, <<"5">>, <<"x">> }

UiIdle ==
  /\ data = <<>> /\ columns = <<>> /\ dimension = 3
  /\ colorScale = "Viridis"
  /\ cmin \in BuildCminPicks /\ cmax \in BuildCmaxPicks
  /\ effects = {} /\ parsing = <<>> /\ stale = 0
  /\ plotData = NoPlot

InitBuild ==
  /\ page \in {"snapshot", "pool"}
  /\ UiIdle
  /\ \/ /\ page = "snapshot"
        /\ \E pp \in SnapshotConfigs :
             plotParams = [pp EXCEPT !.cmin = cmin, !.cmax = cmax]
        /\ componentCols = plotParams.componentCols
        /\ performanceCol = plotParams.performanceCol
        /\ componentPool = <<>> /\ sortOrder = "high"
        /\ sliderColumns = <<>> /\ sliderValues = <<>>
     \/ /\ page = "pool"
        /\ plotParams = NoParams
        /\ \E cfg \in PoolConfigs :
             /\ componentCols = cfg.componentCols
             /\ performanceCol = cfg.performanceCol
             /\ componentPool = cfg.componentPool
             /\ sortOrder = cfg.sortOrder
             /\ sliderColumns = cfg.sliderColumns
             /\ sliderValues = cfg.sliderValues
  /\ last = "init"
  /\ bPhase = "start" /\ bCount = 0
  /\ bLen \in (IF page = "snapshot" THEN 1 ELSE 0)..MaxRows
  /\ bRow = BaseRow /\ bOut = Skip /\ bPts = <<>> /\ bAxis = <<>> /\ bThrew = FALSE

\* the precondition check at the head of the memo
Ready ==
  IF page = "snapshot" THEN SnapshotReady(bLen, plotParams)
                       ELSE PoolReady(bLen, LiveCfg)

BuildBegin ==
  /\ bPhase = "start"
  /\ IF Ready THEN bPhase' = "loop" /\ plotData' = plotData
              ELSE bPhase' = "done" /\ plotData' = NoPlot
  /\ last' = "begin"
  /\ UNCHANGED <<cfgVars, bLen, bCount, bRow, bOut, bPts, bAxis, bThrew>>

RowOutcome(row) ==
  IF page = "snapshot"
    THEN SnapshotRow(row, SnapshotSelected(plotParams), plotParams.dimension,
                     plotParams.performanceCol)
    ELSE PoolRow(row, PoolSelected(LiveCfg), performanceCol, componentPool,
                 sliderColumns, sliderValues)

AxisOutcome(row) ==
  IF page = "snapshot"
    THEN SnapshotAxisRow(row, SnapshotSelected(plotParams), plotParams.dimension,
                         plotParams.performanceCol)
    ELSE Skip

\* what one iteration leaves in the accumulators
Pushed(acc, out) == IF IsPoint(out) THEN Append(acc, out) ELSE acc

IterationEffect(row, out, axis) ==
  /\ bRow' = row
  /\ bOut' = out
  /\ bPts' = Pushed(bPts, out)
  /\ bAxis' = Pushed(bAxis, axis)
  /\ bThrew' = IsThrow(out)

\* one iteration of data.forEach; a raised exception ends the loop
BuildRow ==
  /\ bPhase = "loop" /\ bCount < bLen /\ ~bThrew
  /\ \E row \in BuildRows : IterationEffect(row, RowOutcome(row), AxisOutcome(row))
  /\ bCount' = bCount + 1
  /\ last' = "row"
  /\ UNCHANGED <<cfgVars, plotData, bPhase, bLen>>

BuildEnd ==
  /\ bPhase = "loop" /\ (bCount = bLen \/ bThrew)
  /\ bPhase' = "done"
  /\ plotData' = IF page = "snapshot"
                   THEN SnapshotFinish(bPts, bAxis, bThrew, plotParams)
                   ELSE PoolFinish(bPts, bThrew, LiveCfg)
  /\ last' = "end"
  /\ UNCHANGED <<cfgVars, bLen, bCount, bRow, bOut, bPts, bAxis, bThrew>>

NextBuild == BuildBegin \/ BuildRow \/ BuildEnd

SpecBuild == InitBuild /\ [][NextBuild]_vars

(***************************************************************************)
(* Properties of the build (SpecBuild).                                    *)
(***************************************************************************)
\* the resolution the specification describes: a number cell, or text that
\* parses to a number; anything else does not resolve
Resolves(v) ==
  \/ v.t = "number" /\ v.f = "fin"
  \/ v.t = "string" /\ ParseFloatChars(v.s).f = "fin"

Resolved(v) == IF v.t = "number" THEN v.q ELSE ParseFloatChars(v.s).q

\* the fields the build of this state plots, its performance field, its pool
PlottedCols == IF page = "snapshot" THEN SnapshotSelected(plotParams)
                                    ELSE PoolSelected(LiveCfg)
PerfCol == IF page = "snapshot" THEN plotParams.performanceCol ELSE performanceCol

\* the normalisation total of a row: the plotted fields (snapshot page), the
\* pool fields that resolve (pool page)
RowTotal(row) ==
  IF page = "snapshot"
    THEN RSum([i \in 1..Len(PlottedCols) |->
                 IF Resolves(Field(row, PlottedCols[i]))
                   THEN Resolved(Field(row, PlottedCols[i])) ELSE RZero])
    ELSE RSum([i \in 1..Len(componentPool) |->
                 IF Resolves(Field(row, componentPool[i]))
                   THEN Resolved(Field(row, componentPool[i])) ELSE RZero])

RowPlottable(row) ==
  /\ \A i \in 1..Len(PlottedCols) : Resolves(Field(row, PlottedCols[i]))
  /\ Resolves(Field(row, PerfCol))
  /\ RLt(RZero, RowTotal(row))

IsPlot(p) == p.kind \notin {"none", "threw"}

\* the configuration meets every precondition the specification states: the
\* plotted fields are pairwise distinct, drawn from the pool (pool page), and
\* the performance field is none of them
CleanConfig ==
  /\ \A i, j \in 1..Len(PlottedCols) : PlottedCols[i] = PlottedCols[j] => i = j
  /\ ~Includes(PlottedCols, PerfCol)
  /\ page = "pool" => /\ \A i \in 1..Len(PlottedCols) : Includes(componentPool, PlottedCols[i])
                      /\ ~Includes(componentPool, PerfCol)

\* C1: a build never raises: every iteration of the row loop either accepts
\* the row or rejects it, and the build ends with a plot or with no plot.
\* (Stated for the configurations that meet every precondition.)
C1_NeverThrows ==
  CleanConfig => /\ bOut.st \in {"skip", "point"}
                 /\ plotData.kind # "threw"

\* C2: an iteration over a row in which a plotted field or the performance
\* field does not resolve to a finite number, or whose normalisation total is
\* not positive, pushes no point; and the finished plot holds exactly the
\* pushed points, so a dataset of one all-zero row gives a plot of no points.
C2_RejectedRowsAbsent ==
  [][ /\ (bCount' = bCount + 1 /\ ~RowPlottable(bRow')) => bPts' = bPts
      /\ (bPhase' = "done" /\ IsPlot(plotData')) =>
            /\ Len(plotData'.color) = Len(bPts)
            /\ \A k \in 1..Len(plotData'.cols) :
                  Len(plotData'.cols[k]) = Len(bPts) ]_vars

\* C2 witness: the build of a dataset of one row whose plotted fields are all
\* zero has ended, the row was rejected, and the plot holds no point.
C2_Witness ==
  /\ bPhase = "done" /\ bLen = 1 /\ bCount = 1
  /\ \A i \in 1..Len(PlottedCols) : Field(bRow, PlottedCols[i]) = Int2(0)
  /\ bOut.st = "skip"
  /\ IsPlot(plotData) /\ Len(plotData.color) = 0

\* C3: every coordinate of every accepted point is >= 0.
\* (Stated for the configurations that meet every precondition.)
C3_NonNegative ==
  CleanConfig => \A i \in 1..Len(bPts) : \A k \in 1..Len(bPts[i].normalized) :
     RLe(RZero, bPts[i].normalized[k])

\* C4: the coordinates of an accepted point sum to exactly 1 on the snapshot
\* page (no pool) and to at most 1 on the pool page.
C4_SumToOne ==
  \A i \in 1..Len(bPts) :
     IF page = "snapshot" THEN RSum(bPts[i].normalized) = ROne
                          ELSE RLe(RSum(bPts[i].normalized), ROne)

\* C5: on the pool page a row in which some pool field does not resolve to a
\* finite number is rejected.
\* (Stated for the configurations that meet every precondition.)
C5_PoolFieldRejects ==
  (/\ page = "pool" /\ last = "row" /\ CleanConfig
   /\ \E i \in 1..Len(componentPool) : ~Resolves(Field(bRow, componentPool[i])))
    => bOut.st # "point"

\* the preconditions the specification states for a plot: a non-empty dataset,
\* exactly N selected fields (N is the dimension; 4 on the pool page),
\* pairwise distinct, all in the pool (pool page), and a performance field
C6_Preconditions ==
  /\ bLen > 0
  /\ Len(PlottedCols) = (IF page = "snapshot" THEN plotParams.dimension ELSE 4)
  /\ \A i, j \in 1..Len(PlottedCols) : PlottedCols[i] = PlottedCols[j] => i = j
  /\ page = "pool" => \A i \in 1..Len(PlottedCols) : Includes(componentPool, PlottedCols[i])
  /\ PerfCol # ""

\* C6: a build whose configuration fails one of the preconditions ends with no
\* plot, and without raising; so a build that ends with a plot holding points
\* met all of them.
C6_PlotOnlyIfPreconditions ==
  (bPhase = "done" /\ ~C6_Preconditions) =>
     /\ plotData.kind # "threw"
     /\ ~(IsPlot(plotData) /\ Len(plotData.color) > 0)

(***************************************************************************)
(* The page specification: the mounted page as the user drives it.  A step *)
(* is one user event or one completed parse together with the render that  *)
(* follows it, or one flush of the pending effects together with the       *)
(* render that follows that.                                               *)
(***************************************************************************)
\* the files the user can choose: their header fields and their parsed rows
Files ==
  { [cols |-> <<"A", "B", "P">>,
     rows |-> << [A |-> Int2(1), B |-> Int2(1), P |-> Int2(10)],
                 [A |-> Int2(3), B |-> Int2(1), P |-> Int2(20)] >>],
    [cols |-> <<"A", "B", "C", "P">>,
     rows |-> << [A |-> Int2(2), B |-> Int2(0), C |-> Int2(2), P |-> Int2(5)] >>],
    [cols |-> <<"A", "B", "P">>, rows |-> <<>>] }

\* the options the user picks, of those a control offers
SlotPicks == {"", "A", "B"}
PerfPicks == {"", "A", "P"}
PoolPicks == {"A", "B"}
SliderPicks == {"B"}
ScalePicks == {"Viridis", "Jet"}
CminPicks == {<<>>, <<"5">>}
CmaxPicks == {<<>>, <<"1", "5">>}
OrderPicks == {"high", "low"}

Front(s) == SubSeq(s, 1, Len(s) - 1)
Last(s) == s[Len(s)]
Elems(s) == {s[i] : i \in 1..Len(s)}
Without(s, x) == SelectSeq(s, LAMBDA c : c # x)
Within(s, pool) == SelectSeq(s, LAMBDA c : Includes(pool, c))

\* checked ? Array.from(new Set([...prev, column])) : prev.filter((item) => item !== column)
Toggle(prev, column, checked) ==
  IF checked THEN (IF Includes(prev, column) THEN prev ELSE Append(prev, column))
             ELSE Without(prev, column)

\* next = [...prev]; next[index] = value (index from 1; a hole left by an
\* index past the end reads as unselected, as "" does)
SetAt(prev, index, value) ==
  [i \in 1..(IF index > Len(prev) THEN index ELSE Len(prev)) |->
     IF i = index THEN value ELSE IF i <= Len(prev) THEN prev[i] ELSE ""]

\* componentCols[idx] || ''
Shown(comps, idx) == IF idx <= Len(comps) THEN comps[idx] ELSE ""

\* Array.from({ length: n }, () => '')
Blank(n) == [i \in 1..n |-> ""]

\* the controls are rendered only when columns.length > 0
ControlsShown == Len(columns) > 0

\* the render failed: React has unmounted the page
Mounted == plotData.kind # "threw"

maxComponents == IF Len(columns) > 3 THEN Len(columns) ELSE 3

\* a variant that does not ask for rows
canPlot_NoRows ==
  /\ Len(SelectSeq(Slice(componentCols, dimension), Truthy)) = dimension
  /\ performanceCol # ""

canPlot ==
  /\ Len(data) > 0
  /\ Len(SelectSeq(Slice(componentCols, dimension), Truthy)) = dimension
  /\ performanceCol # ""

\* the colour and draw-order controls that differ from their initial value
Restyled(scale, lo, hi, order) ==
  (IF scale # "Viridis" THEN 1 ELSE 0) + (IF lo # <<>> THEN 1 ELSE 0)
    + (IF hi # <<>> THEN 1 ELSE 0) + (IF order # "high" THEN 1 ELSE 0)

(***************************************************************************)
(* src/unnamed/part_000: extraColumns, columnStats, the sliderValues       *)
(* effect.                                                                 *)
(***************************************************************************)
extraColumns == SelectSeq(componentPool, LAMBDA c : ~Includes(SelectSeq(componentCols, Truthy), c))

\* one row of one column: its normalised value, when the row has one
StatOfRow(num, total) ==
  IF RLe(total, RZero) THEN <<>>
  ELSE IF ~isFinite(num) THEN <<>>
  ELSE <<RDiv(num.q, total)>>

RECURSIVE StatValues(_, _, _)
StatValues(rows, col, pool) ==
  IF rows = <<>> THEN <<>>
  ELSE StatValues(Front(rows), col, pool)
         \o StatOfRow(PoolNum(Last(rows), col), PoolTotal(Last(rows), pool))

RECURSIVE RMin(_)
RMin(vs) == IF Len(vs) = 1 THEN vs[1]
            ELSE IF RLe(vs[1], RMin(Tail(vs))) THEN vs[1] ELSE RMin(Tail(vs))

RECURSIVE RMax(_)
RMax(vs) == IF Len(vs) = 1 THEN vs[1]
            ELSE IF RLe(RMax(Tail(vs)), vs[1]) THEN vs[1] ELSE RMax(Tail(vs))

\* stats[col] = { min, max }, only when some row gave a value
StatEntry(col, vs) ==
  IF vs = <<>> THEN <<>> ELSE << <<col, [min |-> RMin(vs), max |-> RMax(vs)]>> >>

RECURSIVE ColumnStatsFrom(_, _, _)
ColumnStatsFrom(cols, pool, rows) ==
  IF cols = <<>> THEN <<>>
  ELSE ColumnStatsFrom(Front(cols), pool, rows)
         \o StatEntry(Last(cols), StatValues(rows, Last(cols), pool))

columnStats(pool, rows) == ColumnStatsFrom(pool, pool, rows)

\* existing ?? (stats.min + stats.max) / 2
SliderTarget(prev, col, stats) ==
  IF HasKey(prev, col) THEN Get(prev, col)
  ELSE RDiv(RAdd(stats.min, stats.max), Rat(2, 1))

\* a variant that gives a target only to a field that had one
SliderEntry_ExistingOnly(prev, col, stats) ==
  IF HasKey(prev, col) THEN << <<col, Get(prev, col)>> >> ELSE <<>>

SliderEntry(prev, col, stats) ==
  IF HasKey(stats, col) THEN << <<col, SliderTarget(prev, col, Get(stats, col))>> >>
  ELSE <<>>

RECURSIVE NextSliderValues(_, _, _)
NextSliderValues(prev, sliderCols, stats) ==
  IF sliderCols = <<>> THEN <<>>
  ELSE NextSliderValues(prev, Front(sliderCols), stats)
         \o SliderEntry(prev, Last(sliderCols), stats)

(***************************************************************************)
(* The plot memo.  src/app/page.tsx recomputes it when data or plotParams  *)
(* is a new value; src/unnamed/part_000 lists every state it reads, so     *)
(* each render of that page recomputes it.                                 *)
(***************************************************************************)
\* mutant: plotParams is not a dependency
SnapshotMemo_DataOnly(prev, dataChanged, paramsChanged, rows, pp) ==
  IF dataChanged THEN BuildSnapshot(rows, pp) ELSE prev

SnapshotMemo(prev, dataChanged, paramsChanged, rows, pp) ==
  IF dataChanged \/ paramsChanged THEN BuildSnapshot(rows, pp) ELSE prev

Render(dataChanged, paramsChanged) ==
  plotData' = IF page = "snapshot"
                THEN SnapshotMemo(plotData, dataChanged, paramsChanged, data', plotParams')
                ELSE BuildPool(data', LiveCfg')

Idle == effects = {} /\ Mounted

\* a selection of the previous dataset or a taken snapshot is held
Configured ==
  \/ \E i \in 1..Len(componentCols) : componentCols[i] # ""
  \/ performanceCol # "" \/ componentPool # <<>> \/ sliderColumns # <<>>
  \/ sliderValues # <<>> \/ plotParams.set

StaleOk == plotParams.set => stale < MaxStale
StaleNext == IF plotParams.set THEN stale + 1 ELSE 0

Init ==
  /\ page \in {"snapshot", "pool"}
  /\ data = <<>> /\ columns = <<>> /\ dimension = 3
  /\ componentCols = <<"", "", "", "">> /\ performanceCol = ""
  /\ colorScale = "Viridis" /\ cmin = <<>> /\ cmax = <<>>
  /\ plotParams = NoParams
  /\ componentPool = <<>> /\ sortOrder = "high"
  /\ sliderColumns = <<>> /\ sliderValues = <<>>
  /\ plotData = NoPlot
  /\ effects = IF page = "pool" THEN {"pool", "perf", "slider"} ELSE {}
  /\ parsing = <<>> /\ stale = 0 /\ last = "mount"
  /\ bPhase = "off" /\ bLen = 0 /\ bCount = 0
  /\ bRow = BaseRow /\ bOut = Skip /\ bPts = <<>> /\ bAxis = <<>> /\ bThrew = FALSE

\* handleFileChange: the parse is started; it completes later
FileChange(file) ==
  /\ Idle /\ Len(parsing) < MaxParsing
  /\ parsing' = Append(parsing, file)
  /\ last' = "step"
  /\ UNCHANGED <<page, data, columns, dimension, componentCols, performanceCol,
                 colorScale, cmin, cmax, plotParams, componentPool, sortOrder,
                 sliderColumns, sliderValues, effects, stale, plotData, bVars>>

\* the value setPerformanceCol receives when a parse completes
LoadedPerformanceCol_Kept(prev) == prev

LoadedPerformanceCol(prev) == ""

\* the complete callback of the parse
ParseComplete ==
  /\ Idle /\ parsing # <<>>
  /\ parsing' = Tail(parsing)
  /\ data' = Head(parsing).rows
  /\ columns' = Head(parsing).cols
  /\ performanceCol' = LoadedPerformanceCol(performanceCol)
  /\ IF page = "snapshot"
       THEN /\ componentCols' = Blank(Len(Head(parsing).cols))
            /\ plotParams' = NoParams
            /\ effects' = {}
            /\ UNCHANGED <<componentPool, sliderColumns, sliderValues>>
       ELSE /\ componentCols' = <<"", "", "", "">>
            /\ componentPool' = <<>>
            /\ sliderColumns' = <<>>
            /\ sliderValues' = <<>>
            /\ effects' = {"pool", "slider"}
                            \cup (IF performanceCol' # performanceCol THEN {"perf"} ELSE {})
            /\ UNCHANGED plotParams
  /\ stale' = 0
  /\ last' = IF Configured THEN "reload" ELSE "load"
  /\ UNCHANGED <<page, dimension, colorScale, cmin, cmax, sortOrder, bVars>>
  /\ Render(TRUE, plotParams.set)

\* the "Number of components" select of src/app/page.tsx
SetDimension(value) ==
  /\ page = "snapshot" /\ Idle /\ ControlsShown /\ StaleOk
  /\ value \in 3..maxComponents /\ value # dimension
  /\ dimension' = value
  /\ stale' = StaleNext
  /\ last' = "step"
  /\ UNCHANGED <<page, data, columns, componentCols, performanceCol, colorScale,
                 cmin, cmax, plotParams, componentPool, sortOrder, sliderColumns,
                 sliderValues, effects, parsing, bVars>>
  /\ Render(FALSE, FALSE)

\* the options of a component select
SlotOptions == {""} \cup Elems(IF page = "snapshot" THEN columns ELSE componentPool)

\* updateComponentCol, from the select of slot index
UpdateComponentCol(index, value) ==
  /\ Idle /\ ControlsShown /\ StaleOk
  /\ index \in 1..(IF page = "snapshot" THEN dimension ELSE 4)
  /\ value \in SlotOptions /\ value # Shown(componentCols, index)
  /\ componentCols' = SetAt(componentCols, index, value)
  /\ stale' = StaleNext
  /\ last' = "step"
  /\ UNCHANGED <<page, data, columns, dimension, performanceCol, colorScale, cmin,
                 cmax, plotParams, componentPool, sortOrder, sliderColumns,
                 sliderValues, effects, parsing, bVars>>
  /\ Render(FALSE, FALSE)

\* the "Performance column" select
SetPerformanceCol(value) ==
  /\ Idle /\ ControlsShown /\ StaleOk
  /\ value \in {""} \cup Elems(columns) /\ value # performanceCol
  /\ performanceCol' = value
  /\ effects' = IF page = "pool" THEN {"perf"} ELSE {}
  /\ stale' = StaleNext
  /\ last' = "step"
  /\ UNCHANGED <<page, data, columns, dimension, componentCols, colorScale, cmin,
                 cmax, plotParams, componentPool, sortOrder, sliderColumns,
                 sliderValues, parsing, bVars>>
  /\ Render(FALSE, FALSE)

\* the "Colour scale" select
SetColorScale(value) ==
  /\ Idle /\ ControlsShown /\ StaleOk
  /\ value # colorScale
  /\ Restyled(value, cmin, cmax, sortOrder) <= MaxRestyled
  /\ colorScale' = value
  /\ stale' = StaleNext
  /\ last' = "step"
  /\ UNCHANGED <<page, data, columns, dimension, componentCols, performanceCol,
                 cmin, cmax, plotParams, componentPool, sortOrder, sliderColumns,
                 sliderValues, effects, parsing, bVars>>
  /\ Render(FALSE, FALSE)

\* the "Colour min" input
SetCmin(value) ==
  /\ Idle /\ ControlsShown /\ StaleOk
  /\ value # cmin
  /\ Restyled(colorScale, value, cmax, sortOrder) <= MaxRestyled
  /\ cmin' = value
  /\ stale' = StaleNext
  /\ last' = "step"
  /\ UNCHANGED <<page, data, columns, dimension, componentCols, performanceCol,
                 colorScale, cmax, plotParams, componentPool, sortOrder,
                 sliderColumns, sliderValues, effects, parsing, bVars>>
  /\ Render(FALSE, FALSE)

\* the "Colour max" input
SetCmax(value) ==
  /\ Idle /\ ControlsShown /\ StaleOk
  /\ value # cmax
  /\ Restyled(colorScale, cmin, value, sortOrder) <= MaxRestyled
  /\ cmax' = value
  /\ stale' = StaleNext
  /\ last' = "step"
  /\ UNCHANGED <<page, data, columns, dimension, componentCols, performanceCol,
                 colorScale, cmin, plotParams, componentPool, sortOrder,
                 sliderColumns, sliderValues, effects, parsing, bVars>>
  /\ Render(FALSE, FALSE)

\* the "Draw order" select of src/unnamed/part_000
SetSortOrder(value) ==
  /\ page = "pool" /\ Idle /\ ControlsShown
  /\ value # sortOrder
  /\ Restyled(colorScale, cmin, cmax, value) <= MaxRestyled
  /\ sortOrder' = value
  /\ last' = "step"
  /\ UNCHANGED <<page, data, columns, dimension, componentCols, performanceCol,
                 colorScale, cmin, cmax, plotParams, componentPool, sliderColumns,
                 sliderValues, effects, parsing, stale, bVars>>
  /\ Render(FALSE, FALSE)

\* the "Create plot" button of src/app/page.tsx, disabled unless canPlot
CreatePlot ==
  /\ page = "snapshot" /\ Idle /\ ControlsShown
  /\ canPlot
  /\ plotParams' = LiveParams
  /\ stale' = 0
  /\ last' = "step"
  /\ UNCHANGED <<page, data, columns, dimension, componentCols, performanceCol,
                 colorScale, cmin, cmax, componentPool, sortOrder, sliderColumns,
                 sliderValues, effects, parsing, bVars>>
  /\ Render(FALSE, TRUE)

\* handleComponentPoolChange, from the checkbox of a column; the performance
\* column has no checkbox
PoolToggle(column) ==
  /\ page = "pool" /\ Idle /\ ControlsShown
  /\ Includes(columns, column) /\ column # performanceCol
  /\ componentPool' = Toggle(componentPool, column, ~Includes(componentPool, column))
  /\ effects' = {"pool", "slider"}
  /\ last' = "step"
  /\ UNCHANGED <<page, data, columns, dimension, componentCols, performanceCol,
                 colorScale, cmin, cmax, plotParams, sortOrder, sliderColumns,
                 sliderValues, parsing, stale, bVars>>
  /\ Render(FALSE, FALSE)

\* handleSliderColumnChange, from the checkbox of an extra column
SliderToggle(column) ==
  /\ page = "pool" /\ Idle /\ ControlsShown
  /\ Includes(extraColumns, column)
  /\ sliderColumns' = Toggle(sliderColumns, column, ~Includes(sliderColumns, column))
  /\ effects' = {"slider"}
  /\ last' = "step"
  /\ UNCHANGED <<page, data, columns, dimension, componentCols, performanceCol,
                 colorScale, cmin, cmax, plotParams, componentPool, sortOrder,
                 sliderValues, parsing, stale, bVars>>
  /\ Render(FALSE, FALSE)

\* the positions of a range input: min, min + step, ..., none above max
Floor(q) == q[1] \div q[2]
step == Rat(1, 1000)
LastStep(stats) ==
  RAdd(stats.min, RMul(Rat(Floor(RDiv(RSub(stats.max, stats.min), step)), 1), step))
SliderPositions(stats) == {stats.min, LastStep(stats)}

SliderMoveTo(column, stats) ==
  \E value \in SliderPositions(stats) :
    /\ value # Get(sliderValues, column)
    /\ sliderValues' = Put(sliderValues, column, value)

\* the onChange of the range input of a slider column; the input is rendered
\* only under a plot, for a column with stats and a value
SliderMove(column) ==
  /\ page = "pool" /\ Idle
  /\ IsPlot(plotData) /\ Len(sliderColumns) > 0
  /\ Includes(sliderColumns, column)
  /\ HasKey(columnStats(componentPool, data), column)
  /\ HasKey(sliderValues, column)
  /\ SliderMoveTo(column, Get(columnStats(componentPool, data), column))
  /\ last' = "step"
  /\ UNCHANGED <<page, data, columns, dimension, componentCols, performanceCol,
                 colorScale, cmin, cmax, plotParams, componentPool, sortOrder,
                 sliderColumns, effects, parsing, stale, bVars>>
  /\ Render(FALSE, FALSE)

(***************************************************************************)
(* The effects of src/unnamed/part_000.  After a render, the effects whose *)
(* dependencies changed run in the order of their declaration, each        *)
(* reading the state of that render; their updates are applied in order    *)
(* and the page renders again.                                             *)
(***************************************************************************)
\* prev.map((col) => (componentPool.includes(col) ? col : ''))
KeepInPool(prev, pool) == [i \in 1..Len(prev) |-> IF Includes(pool, prev[i]) THEN prev[i] ELSE ""]

\* the effect on performanceCol returns early when none is selected
\* a variant in which the effect on performanceCol runs in every pass
PerfEffectActs_EveryPass == performanceCol # ""
PerfEffectActs == "perf" \in effects /\ performanceCol # ""

AfterPoolEffect(prev) == IF "pool" \in effects THEN Within(prev, componentPool) ELSE prev
AfterPerfEffect(prev) == IF PerfEffectActs THEN Without(prev, performanceCol) ELSE prev

RunEffects ==
  /\ page = "pool" /\ effects # {} /\ Mounted
  /\ componentCols' = IF "pool" \in effects THEN KeepInPool(componentCols, componentPool)
                                            ELSE componentCols
  /\ componentPool' = AfterPerfEffect(componentPool)
  /\ sliderColumns' = AfterPerfEffect(AfterPoolEffect(sliderColumns))
  /\ sliderValues' = IF "slider" \in effects
                       THEN NextSliderValues(sliderValues, sliderColumns,
                                             columnStats(componentPool, data))
                       ELSE sliderValues
  /\ effects' = (IF PerfEffectActs THEN {"pool"} ELSE {})
                  \cup (IF "pool" \in effects \/ PerfEffectActs THEN {"slider"} ELSE {})
  /\ last' = "step"
  /\ UNCHANGED <<page, data, columns, dimension, performanceCol, colorScale, cmin,
                 cmax, plotParams, sortOrder, parsing, stale, bVars>>
  /\ Render(FALSE, FALSE)

Next ==
  \/ \E file \in Files : FileChange(file)
  \/ ParseComplete
  \/ \E value \in 3..4 : SetDimension(value)
  \/ \E index \in 1..4, value \in SlotPicks : UpdateComponentCol(index, value)
  \/ \E value \in PerfPicks : SetPerformanceCol(value)
  \/ \E value \in ScalePicks : SetColorScale(value)
  \/ \E value \in CminPicks : SetCmin(value)
  \/ \E value \in CmaxPicks : SetCmax(value)
  \/ \E value \in OrderPicks : SetSortOrder(value)
  \/ CreatePlot
  \/ \E column \in PoolPicks : PoolToggle(column)
  \/ \E column \in SliderPicks : SliderToggle(column)
  \/ \E column \in SliderPicks : SliderMove(column)
  \/ RunEffects

Spec == Init /\ [][Next]_vars

\* The page with its effects scheduled.  React runs the effects of a render
\* once the render is committed, so a pending effect pass is always taken.
\* While effects are pending no other step of Next is enabled and a pass
\* always changes the pending set, so the steps that change effects in a
\* Pending state are the RunEffects steps: the fairness condition names them
\* by that change.
Pending == page = "pool" /\ effects # {} /\ Mounted
EffectPass ==
  Pending /\ effects' \in SUBSET {"pool", "perf", "slider"} /\ effects' # effects
SpecFair == Spec /\ WF_effects(EffectPass)

(***************************************************************************)
(* Properties of the page (Spec).                                          *)
(***************************************************************************)
\* no selection is held
Cleared ==
  /\ \A i \in 1..Len(componentCols) : componentCols[i] = ""
  /\ performanceCol = ""
  /\ page = "pool" => componentPool = <<>> /\ sliderColumns = <<>> /\ sliderValues = <<>>

\* the build of the current dataset under the live selections
BuildOfLive ==
  IF page = "snapshot" THEN BuildSnapshot(data, LiveParams) ELSE BuildPool(data, LiveCfg)

\* the build of the current dataset under what the plot memo reads
BuildOfRead ==
  IF page = "snapshot" THEN BuildSnapshot(data, plotParams) ELSE BuildPool(data, LiveCfg)

\* C7: the step that completes a file load leaves every component slot and
\* the performance field unselected, the pool, the constraint fields and their
\* targets empty, no snapshot held, and no plot; and from a state with nothing
\* selected and no plot, no step that leaves nothing selected shows a plot.
C7_LoadResets ==
  [][ /\ last' \in {"load", "reload"} =>
           Cleared' /\ ~plotParams'.set /\ plotData' = NoPlot
      /\ (Cleared /\ plotData = NoPlot /\ Cleared') => plotData' = NoPlot ]_vars

\* C7 witness: a load has just completed over a page that held selections, and
\* the page now holds the new dataset, no selection and no plot.
C7_Witness ==
  /\ last = "reload" /\ data # <<>>
  /\ Cleared /\ ~plotParams.set /\ plotData = NoPlot

C9_PerformanceApart ==
  IsPlot(plotData) =>
    /\ ~Includes(PlottedCols, PerfCol)
    /\ page = "pool" => ~Includes(componentPool, performanceCol)

\* C10: on the pool page, whenever a render computes a plot, every plotted
\* component field is in the pool.
C10_SelectedInPool ==
  (page = "pool" /\ IsPlot(plotData)) =>
    \A i \in 1..Len(PlottedCols) : Includes(componentPool, PlottedCols[i])

(***************************************************************************)
(* Properties of the build (SpecBuild): the colour domain, the constraint  *)
(* filter, the sort, the projection, the parallel-coordinates axes.        *)
(***************************************************************************)
\* the override texts the build of this state reads
OverrideMin == IF page = "snapshot" THEN plotParams.cmin ELSE cmin
OverrideMax == IF page = "snapshot" THEN plotParams.cmax ELSE cmax

\* v is the least (greatest) performance value of the pushed points
IsLeastPerf(v) ==
  /\ \E i \in 1..Len(bPts) : bPts[i].perf = v
  /\ \A i \in 1..Len(bPts) : RLe(v.q, bPts[i].perf.q)
IsGreatestPerf(v) ==
  /\ \E i \in 1..Len(bPts) : bPts[i].perf = v
  /\ \A i \in 1..Len(bPts) : RLe(bPts[i].perf.q, v.q)

\* the text is a numeral
Numeric(text) == ParseFloatChars(text).f = "fin"

\* the colour values of the plot are the performance values of the pushed
\* points, each as often as it was pushed
SamePerfs(color) ==
  /\ Len(color) = Len(bPts)
  /\ \A i \in 1..Len(bPts) :
        Cardinality({j \in 1..Len(color) : color[j] = bPts[i].perf})
          = Cardinality({j \in 1..Len(bPts) : bPts[j].perf = bPts[i].perf})

\* C11: the build has ended with a plot.  Its colour values are the
\* performance values of exactly the pushed points.  With no minimum
\* (maximum) override text the lower (upper) bound of the colour domain is
\* the least (greatest) of them, and 0 (1) when no point was pushed.  With
\* both override texts numeric the domain is exactly the two numbers, in the
\* order given, also when the minimum exceeds the maximum.
C11_ColourDomain ==
  (bPhase = "done" /\ IsPlot(plotData)) =>
     /\ SamePerfs(plotData.color)
     /\ OverrideMin = <<>> =>
           IF bPts = <<>> THEN plotData.cmin = Int2(0) ELSE IsLeastPerf(plotData.cmin)
     /\ OverrideMax = <<>> =>
           IF bPts = <<>> THEN plotData.cmax = Int2(1) ELSE IsGreatestPerf(plotData.cmax)
     /\ (Numeric(OverrideMin) /\ Numeric(OverrideMax)) =>
           /\ plotData.cmin = ParseFloatChars(OverrideMin)
           /\ plotData.cmax = ParseFloatChars(OverrideMax)
     /\ (OverrideMin = <<"1", "5">> /\ OverrideMax = <<"5">>) =>
           plotData.cmin = Int2(15) /\ plotData.cmax = Int2(5)

\* C11 witness: a build without override texts has ended over two rows, the
\* first pushed with the greater performance value, the second with the
\* smaller, and the domain runs from the second's value to the first's.
C11_Witness ==
  /\ bPhase = "done" /\ IsPlot(plotData)
  /\ OverrideMin = <<>> /\ OverrideMax = <<>>
  /\ Len(bPts) = 2 /\ RLt(bPts[2].perf.q, bPts[1].perf.q)
  /\ plotData.cmin = bPts[2].perf /\ plotData.cmax = bPts[1].perf

MeetsConstraint(row, col) ==
  /\ Resolves(Field(row, col))
  /\ HasKey(sliderValues, col)
  /\ RLe(RAbs(RSub(RDiv(Resolved(Field(row, col)), RowTotal(row)),
                   Get(sliderValues, col))),
         Rat(5, 1000))

PassesFilter(row) ==
  \A i \in 1..Len(sliderColumns) : MeetsConstraint(row, sliderColumns[i])

\* C13: on the pool page an iteration of the row loop pushes a point exactly
\* when the row is plottable and meets the constraint of every constraint
\* field; a row that fails a constraint pushes nothing, and the finished
\* plot holds the pushed points only, so the row is neither plotted nor
\* counted in the colour domain.
C13_ConstraintFilter ==
  [][ /\ (page = "pool" /\ bCount' = bCount + 1) =>
            /\ (bPts' # bPts) = (RowPlottable(bRow') /\ PassesFilter(bRow'))
            /\ bPts' # bPts => bPts' = Append(bPts, bOut')
      /\ (page = "pool" /\ bPhase' = "done" /\ IsPlot(plotData')) =>
            /\ Len(plotData'.color) = Len(bPts)
            /\ \A j \in 1..Len(plotData'.color) :
                  \E i \in 1..Len(bPts) : plotData'.color[j] = bPts[i].perf ]_vars

\* C13 witness: with the target 0.5 for E and the pool A to E the build
\* of two rows has ended: the row with E at 0.503 of the total was pushed,
\* the row with E at 0.51 was not, and the plot holds the one point.
C13_Witness ==
  /\ page = "pool" /\ bPhase = "done" /\ bCount = 2
  /\ sliderColumns = <<"E">> /\ sliderValues = << <<"E", Rat(1, 2)>> >>
  /\ Field(bRow, "E") = Int2(510) /\ bOut.st = "skip"
  /\ Len(bPts) = 1 /\ bPts[1].perf = Int2(30)
  /\ IsPlot(plotData) /\ plotData.color = <<Int2(30)>>

\* the point drawn at position j of a trace
Drawn(p, j) ==
  [perf |-> p.color[j], hover |-> p.text[j],
   xyz |-> <<p.cols[1][j], p.cols[2][j], p.cols[3][j]>>]

\* what the trace holds for a pushed point
DrawnOf(pt) == [perf |-> pt.perf, hover |-> pt.hover, xyz |-> Tetra(pt.normalized)]

\* the colour values run in the order of the mode: upwards for "high" (the
\* highest is drawn last), downwards for "low"
InOrder(color, mode) ==
  \A i, j \in 1..Len(color) :
     i < j => IF mode = "high" THEN RLe(color[i].q, color[j].q)
                               ELSE RLe(color[j].q, color[i].q)

\* pi arranges the pushed points into the trace p: it is a permutation,
\* position j of every array of p holds the pushed point pi[j], and pushed
\* points of equal performance value keep their order
Arranges(pi, p) ==
  /\ \A i, j \in DOMAIN pi : pi[i] = pi[j] => i = j
  /\ \A j \in DOMAIN pi : Drawn(p, j) = DrawnOf(bPts[pi[j]])
  /\ \A i, j \in DOMAIN pi :
        (i < j /\ bPts[pi[i]].perf = bPts[pi[j]].perf) => pi[i] < pi[j]

\* the trace of the pushed points under a draw order
TraceUnder(mode) == PoolFinish(bPts, FALSE, [LiveCfg EXCEPT !.sortOrder = mode])

Aligned(p) ==
  /\ Len(p.color) = Len(bPts) /\ Len(p.text) = Len(bPts)
  /\ \A k \in 1..3 : Len(p.cols[k]) = Len(bPts)

\* two pushed points of different performance value stand in opposite order
\* in the two arrangements
Opposite(piHigh, piLow) ==
  \A i, j, k, l \in DOMAIN piHigh :
     (/\ piHigh[i] = piLow[k] /\ piHigh[j] = piLow[l]
      /\ bPts[piHigh[i]].perf # bPts[piHigh[j]].perf) => ((i < j) = (l < k))

\* C14: the build of the pool page has ended with a plot.  The points are
\* drawn in non-decreasing order of performance under "high" and in
\* non-increasing order under "low"; points of equal performance keep their
\* dataset order; two points of different performance are drawn in opposite
\* order under the two modes; sorting the sorted points again changes
\* nothing; and the coordinates, the hover text and the colour value at one
\* position belong to the same point.
C14_DrawOrder ==
  (page = "pool" /\ bPhase = "done" /\ IsPlot(plotData)) =>
     /\ plotData = TraceUnder(sortOrder)
     /\ Aligned(TraceUnder("high")) /\ Aligned(TraceUnder("low"))
     /\ InOrder(TraceUnder("high").color, "high")
     /\ InOrder(TraceUnder("low").color, "low")
     /\ \E piHigh, piLow \in [1..Len(bPts) -> 1..Len(bPts)] :
           /\ Arranges(piHigh, TraceUnder("high"))
           /\ Arranges(piLow, TraceUnder("low"))
           /\ Opposite(piHigh, piLow)
     /\ \A mode \in {"high", "low"} :
           SortPoints(SortPoints(bPts, mode), mode) = SortPoints(bPts, mode)

\* C14 witness: a build under "low" has ended with two points pushed in
\* ascending order of performance and drawn in descending order, each with
\* its own coordinates.
C14_Witness ==
  /\ page = "pool" /\ bPhase = "done" /\ IsPlot(plotData) /\ sortOrder = "low"
  /\ Len(bPts) = 2 /\ RLt(bPts[1].perf.q, bPts[2].perf.q)
  /\ bPts[1].normalized # bPts[2].normalized
  /\ Drawn(plotData, 1) = DrawnOf(bPts[2])
  /\ Drawn(plotData, 2) = DrawnOf(bPts[1])

\* a.v0 + b.v1 + c.v2 + d.v3 written out: x = b + c/2 + d/2, y = (c/2 +
\* d/6) sqrt 3, z = (d/3) sqrt 6; as <<x, y / sqrt 3, z / sqrt 6>>
WeightedVertices(n) ==
  << RAdd(n[2], RAdd(RMul(Rat(1, 2), n[3]), RMul(Rat(1, 2), n[4]))),
     RAdd(RMul(Rat(1, 2), n[3]), RMul(Rat(1, 6), n[4])),
     RMul(Rat(1, 3), n[4]) >>

\* the centroid of the four vertices: (1/2, sqrt3/6, sqrt6/12)
Centroid == <<Rat(1, 2), Rat(1, 6), Rat(1, 12)>>

\* the trace draws the point of performance value perf at xyz
DrawsAt(perf, xyz) ==
  \E j \in 1..Len(plotData.color) :
     /\ plotData.color[j] = perf
     /\ <<plotData.cols[1][j], plotData.cols[2][j], plotData.cols[3][j]>> = xyz

UnitVector(k) == [i \in 1..4 |-> IF i = k THEN ROne ELSE RZero]

\* C15: a build with four components has ended with a plot.  Every pushed
\* point with normalised coordinates (a, b, c, d) is drawn at a.v0 + b.v1 +
\* c.v2 + d.v3; a unit coordinate vector is drawn at its vertex; and the
\* coordinates (1/4, 1/4, 1/4, 1/4), which a row holding 1 in each of the
\* four fields that make up its total has, are drawn at the centroid.
C15_Projection ==
  (bPhase = "done" /\ plotData.kind = "scatter3d") =>
     \A i \in 1..Len(bPts) :
        /\ DrawsAt(bPts[i].perf, WeightedVertices(bPts[i].normalized))
        /\ bPts[i].normalized = UnitVector(1) =>
              DrawsAt(bPts[i].perf, <<RZero, RZero, RZero>>)
        /\ bPts[i].normalized = UnitVector(2) =>
              DrawsAt(bPts[i].perf, <<ROne, RZero, RZero>>)
        /\ bPts[i].normalized = UnitVector(3) =>
              DrawsAt(bPts[i].perf, <<Rat(1, 2), Rat(1, 2), RZero>>)
        /\ bPts[i].normalized = UnitVector(4) =>
              DrawsAt(bPts[i].perf, <<Rat(1, 2), Rat(1, 6), Rat(1, 3)>>)
        /\ bPts[i].normalized = <<Rat(1, 4), Rat(1, 4), Rat(1, 4), Rat(1, 4)>> =>
              DrawsAt(bPts[i].perf, Centroid)

\* C15 witness: a four-component build of the snapshot page has ended over
\* the row holding D only and the row (1, 1, 1, 1): the first is drawn at v3,
\* the second at the centroid.
C15_Witness ==
  /\ page = "snapshot" /\ bPhase = "done" /\ plotData.kind = "scatter3d"
  /\ PlottedCols = <<"A", "B", "C", "D">>
  /\ Len(bPts) = 2
  /\ bPts[1].normalized = UnitVector(4)
  /\ bRow = BaseRow /\ bPts[2].normalized = <<Rat(1, 4), Rat(1, 4), Rat(1, 4), Rat(1, 4)>>
  /\ <<plotData.cols[1][1], plotData.cols[2][1], plotData.cols[3][1]>>
        = <<Rat(1, 2), Rat(1, 6), Rat(1, 3)>>
  /\ <<plotData.cols[1][2], plotData.cols[2][2], plotData.cols[3][2]>> = Centroid

\* C17: a build with N >= 5 components has ended with a plot.  The trace has
\* exactly N-1 axes; axis i is labelled with the i-th component field, has
\* the range [0, 1] and holds the i-th coordinate of every pushed point, so
\* the N-th coordinate is the one left out; every axis holds as many values
\* as there are colour values, and position j of every axis and of the
\* colour values belongs to the j-th accepted row.
C17_Axes ==
  (bPhase = "done" /\ IsPlot(plotData) /\ page = "snapshot" /\ plotParams.dimension >= 5) =>
     /\ plotData.kind = "parcoords"
     /\ Len(plotData.axes) = plotParams.dimension - 1
     /\ Len(plotData.cols) = plotParams.dimension - 1
     /\ Len(plotData.color) = Len(bPts)
     /\ \A i \in 1..(plotParams.dimension - 1) :
           /\ plotData.axes[i] = [label |-> PlottedCols[i], range |-> <<0, 1>>]
           /\ Len(plotData.cols[i]) = Len(plotData.color)
           /\ \A j \in 1..Len(bPts) :
                 /\ Len(bPts[j].normalized) = plotParams.dimension
                 /\ plotData.cols[i][j] = bPts[j].normalized[i]
                 /\ plotData.color[j] = bPts[j].perf
           /\ bOut.st = "point" =>
                 /\ plotData.cols[i][Len(bPts)]
                      = RDiv(Resolved(Field(bRow, PlottedCols[i])), RowTotal(bRow))
                 /\ plotData.color[Len(bPts)].q = Resolved(Field(bRow, PerfCol))

\* C17 witness: a five-component build has ended over a rejected row and an
\* accepted one: four axes labelled A, B, C, D, each holding the one value.
C17_Witness ==
  /\ bPhase = "done" /\ page = "snapshot" /\ plotParams.dimension = 5
  /\ plotData.kind = "parcoords"
  /\ bCount = 2 /\ Len(bPts) = 1 /\ bOut.st = "point"
  /\ [i \in 1..4 |-> plotData.axes[i].label] = <<"A", "B", "C", "D">>
  /\ [i \in 1..4 |-> plotData.cols[i]]
       = <<<<Rat(1, 5)>>, <<Rat(1, 5)>>, <<Rat(1, 5)>>, <<Rat(1, 5)>>>>
  /\ plotData.color = <<Int2(10)>>

(***************************************************************************)
(* Properties of the page (Spec), continued.                               *)
(***************************************************************************)
\* C16: on the pool page, once the effects of an event have run, no field is
\* both selected in a component slot and selected as a constraint field.
C16_SlotsApartFromSliders ==
  (page = "pool" /\ Idle) =>
     \A i \in 1..Len(componentCols) :
        componentCols[i] # "" => ~Includes(sliderColumns, componentCols[i])

\* the effects that can still run once a pass over the pending ones is made:
\* the effect on performanceCol can wake the effect on componentPool, which
\* can wake the effect on sliderColumns, which wakes none
Rank(pending) ==
  IF "perf" \in pending THEN 3
  ELSE IF "pool" \in pending THEN 2
  ELSE IF "slider" \in pending THEN 1
  ELSE 0

\* running each of the three effects on the present state changes nothing
EffectsAtRest ==
  /\ KeepInPool(componentCols, componentPool) = componentCols
  /\ Within(sliderColumns, componentPool) = sliderColumns
  /\ performanceCol # "" =>
        /\ Without(componentPool, performanceCol) = componentPool
        /\ Without(sliderColumns, performanceCol) = sliderColumns
  /\ NextSliderValues(sliderValues, sliderColumns, columnStats(componentPool, data))
        = sliderValues

\* C18: on the pool page every pass over the pending effects leaves fewer
\* effects that can still run, so at most three passes follow an event; the
\* passes end in a state with no pending effect, and in that state running
\* every effect again changes no state variable.
C18_CascadeEnds ==
  /\ [][ (page = "pool" /\ effects # {}) => Rank(effects') < Rank(effects) ]_vars
  /\ [](page = "pool" /\ Idle => EffectsAtRest)
  /\ (Pending ~> (effects = {}))

\* C18 witness: a cascade is under way on the pool page: the effect on the
\* performance field has taken that field out of the pool, a slot still
\* holds it, and the effects on the pool and on the sliders are pending.
C18_Witness ==
  /\ page = "pool" /\ effects = {"pool", "slider"} /\ Mounted
  /\ performanceCol # "" /\ ~Includes(componentPool, performanceCol)
  /\ Includes(componentCols, performanceCol)
  /\ ~EffectsAtRest

\* C19: on the snapshot page, whenever a snapshot is held the build over the
\* current dataset and the snapshot passes its precondition: the dataset has
\* at least one row, each of the first `dimension` slots of the snapshot
\* holds a field and the snapshot has a performance field, so the build is
\* not the empty one; and the completion of a file load leaves no snapshot.
C19_SnapshotBuilds ==
  /\ (page = "snapshot" /\ plotParams.set) =>
        /\ Len(data) >= 1
        /\ plotParams.dimension <= Len(plotParams.componentCols)
        /\ \A i \in 1..plotParams.dimension : plotParams.componentCols[i] # ""
        /\ plotParams.performanceCol # ""
        /\ BuildSnapshot(data, plotParams) # NoPlot
  /\ (page = "snapshot" /\ last \in {"load", "reload"}) => ~plotParams.set

\* C19 witness: a snapshot is held over a loaded file after an edit of the
\* live selection that would not pass the precondition (a slot was emptied).
C19_Witness ==
  /\ page = "snapshot" /\ plotParams.set /\ Len(data) >= 1
  /\ ~canPlot
  /\ IsPlot(plotData)

\* the fields that hold a constraint target
TargetFields == {sliderValues[i][1] : i \in 1..Len(sliderValues)}

\* the selected constraint fields for which statistics exist
FieldsWithStats ==
  {sliderColumns[i] : i \in {j \in 1..Len(sliderColumns) :
      HasKey(columnStats(componentPool, data), sliderColumns[j])}}

\* C20: on the pool page, once the effects have run to quiescence, the fields
\* that hold a constraint target are exactly the selected constraint fields
\* for which statistics exist.
\* So no row is rejected for the lack of a target alone: a row with a
\* positive total in which a selected constraint field resolves finds a
\* target for that field.
C20_TargetsMatchSliders ==
  (page = "pool" /\ Idle) =>
     /\ TargetFields = FieldsWithStats
     /\ \A i \in 1..Len(sliderValues), j \in 1..Len(sliderValues) :
           sliderValues[i][1] = sliderValues[j][1] => i = j
     /\ \A r \in 1..Len(data), c \in 1..Len(sliderColumns) :
           (RLt(RZero, RowTotal(data[r])) /\ Resolves(Field(data[r], sliderColumns[c])))
              => HasKey(sliderValues, sliderColumns[c])

\* C20 witness: the effects are at rest with B a selected constraint field
\* that has statistics and a target, and the plot holds a point.
C20_Witness ==
  /\ page = "pool" /\ Idle
  /\ sliderColumns = <<"B">> /\ TargetFields = {"B"}
  /\ HasKey(columnStats(componentPool, data), "B")
  /\ IsPlot(plotData) /\ Len(plotData.color) > 0

====
